---------------------------- MODULE Spec2Model ----------------------------
(***************************************************************************)
(* secp256k1_pubkey_scalar_mul (modules/ecdh/pubkey_scalar_mul.h): one     *)
(* invocation per element of Procs, one action per statement of the        *)
(* function.  The arithmetic library the function calls is modelled on a   *)
(* scaled-down curve of the same shape as secp256k1, y^2 = x^3 + 7 over    *)
(* GF(FieldP), whose group has prime order GroupN < FieldP; buffers are    *)
(* BufLen digits of base ByteBase, big-endian (32 bytes in the program).   *)
(***************************************************************************)
EXTENDS Integers, Sequences, FiniteSets, TLC

(* ------------------------------ bounds -------------------------------- *)
\* number of invocations that may run concurrently
NProcs == 2
\* a field element that was not normalized holds v + k*FieldP, k <= MaxMag
MaxMag == 1

Procs == 1..NProcs

(* ---------------------- curve and buffer parameters ------------------- *)
FieldP == 13
GroupN == 7
CurveB == 7
ByteBase == 4
BufLen == 2

RECURSIVE Pow(_, _)
Pow(a, k) == IF k = 0 THEN 1 ELSE a * Pow(a, k - 1)

BufRange == Pow(ByteBase, BufLen)
Buffers == [1..BufLen -> 0..(ByteBase - 1)]

\* big-endian bytes -> integer
RECURSIVE DecodeFrom(_, _)
DecodeFrom(b, k) == IF k = 0 THEN 0 ELSE DecodeFrom(b, k - 1) * ByteBase + b[k]
Decode(b) == DecodeFrom(b, BufLen)

\* integer -> big-endian bytes of the low BufLen digits
Encode(v) == [k \in 1..BufLen |-> (v \div Pow(ByteBase, BufLen - k)) % ByteBase]

(* --------------------------- field arithmetic -------------------------- *)
FMod(a) == a % FieldP
FMul(a, b) == FMod(a * b)
FSub(a, b) == FMod(a - b)
FInv(a) == CHOOSE b \in 1..(FieldP - 1) : FMul(a, b) = 1

\* secp256k1_fe_normalize: the unique representative in [0, FieldP)
secp256k1_fe_normalize(raw) == raw % FieldP
\* secp256k1_fe_get_b32: serializes the stored limbs as they are
secp256k1_fe_get_b32(raw) == Encode(raw)

(* ------------------------- group representations ---------------------- *)
GeInfinity == [x |-> 0, y |-> 0, infinity |-> TRUE]
Ge(a, b) == [x |-> a, y |-> b, infinity |-> FALSE]
GejInfinity == [x |-> 0, y |-> 0, z |-> 0, infinity |-> TRUE]
Gej(a, b, c) == [x |-> a, y |-> b, z |-> c, infinity |-> FALSE]

OnCurve(a, b) == FMul(b, b) = FMod(a * a * a + CurveB)
CurvePoints == {q \in (0..(FieldP - 1)) \X (0..(FieldP - 1)) : OnCurve(q[1], q[2])}

\* secp256k1_pubkey: the stored coordinates of a point
Pubkeys == {[x |-> Encode(q[1]), y |-> Encode(q[2])] : q \in CurvePoints}
secp256k1_pubkey_load(pk) == Ge(Decode(pk.x), Decode(pk.y))

\* Jacobian doubling (curve coefficient a = 0)
GejDouble(r) ==
    IF r.infinity \/ r.y = 0 THEN GejInfinity
    ELSE LET yy == FMul(r.y, r.y)
             ss == FMul(4, FMul(r.x, yy))
             m  == FMul(3, FMul(r.x, r.x))
             x3 == FSub(FMul(m, m), FMul(2, ss))
             y3 == FSub(FMul(m, FSub(ss, x3)), FMul(8, FMul(yy, yy)))
             z3 == FMul(2, FMul(r.y, r.z))
         IN  Gej(x3, y3, z3)

\* Jacobian + affine addition
GejAddGe(r, q) ==
    IF r.infinity THEN Gej(q.x, q.y, 1)
    ELSE IF q.infinity THEN r
    ELSE LET zz == FMul(r.z, r.z)
             u2 == FMul(q.x, zz)
             s2 == FMul(q.y, FMul(zz, r.z))
             h  == FSub(u2, r.x)
             rr == FSub(s2, r.y)
             hh == FMul(h, h)
             h3 == FMul(hh, h)
             v  == FMul(r.x, hh)
             x3 == FSub(FSub(FMul(rr, rr), h3), FMul(2, v))
             y3 == FSub(FMul(rr, FSub(v, x3)), FMul(r.y, h3))
             z3 == FMul(r.z, h)
         IN  IF h = 0 THEN (IF rr = 0 THEN GejDouble(r) ELSE GejInfinity)
             ELSE Gej(x3, y3, z3)

\* secp256k1_ecmult_const: k*q in Jacobian coordinates; every bit of k costs
\* one doubling and one addition
RECURSIVE secp256k1_ecmult_const(_, _)
secp256k1_ecmult_const(q, k) ==
    IF k = 0 THEN GejInfinity
    ELSE LET d == GejDouble(secp256k1_ecmult_const(q, k \div 2))
             t == GejAddGe(d, q)
         IN  IF k % 2 = 1 THEN t ELSE d

\* secp256k1_ge_set_gej: one inversion, then x = X/Z^2, y = Y/Z^3
secp256k1_ge_set_gej(r) ==
    IF r.infinity THEN GeInfinity
    ELSE LET zi  == FInv(r.z)
             zi2 == FMul(zi, zi)
         IN  Ge(FMul(r.x, zi2), FMul(r.y, FMul(zi2, zi)))

\* secp256k1_scalar_set_b32: the value reduced modulo the group order, and
\* whether the bytes encoded a value >= the group order
secp256k1_scalar_set_b32(b) ==
    [s |-> Decode(b) % GroupN, overflow |-> IF Decode(b) >= GroupN THEN 1 ELSE 0]
secp256k1_scalar_is_zero(k) == k = 0
secp256k1_scalar_clear == 0

(* ----------------- reference multiplication (affine) ------------------ *)
AffAdd(a, b) ==
    IF a.infinity THEN b
    ELSE IF b.infinity THEN a
    ELSE IF a.x = b.x /\ FMod(a.y + b.y) = 0 THEN GeInfinity
    ELSE LET lam == IF a.x = b.x
                    THEN FMul(FMul(3, FMul(a.x, a.x)), FInv(FMul(2, a.y)))
                    ELSE FMul(FSub(b.y, a.y), FInv(FSub(b.x, a.x)))
             x3  == FSub(FSub(FMul(lam, lam), a.x), b.x)
         IN  Ge(x3, FSub(FMul(lam, FSub(a.x, x3)), a.y))

RECURSIVE RefMul(_, _)
RefMul(k, q) == IF k = 0 THEN GeInfinity ELSE AffAdd(RefMul(k - 1, q), q)


(* ------------------------------- state -------------------------------- *)
VARIABLES
    ctx,            \* the shared context: its illegal-argument handler
    null,           \* per call: the arguments passed as NULL
    point,          \* per call: the caller's secp256k1_pubkey
    scalar,         \* per call: the caller's 32-byte scalar buffer
    x_res, y_res,   \* per call: the caller's output buffers
    pc,             \* per call: the next statement of the function
    ret, overflow,  \* per frame: the locals of lines 7-8
    res, pt, s,     \* per frame: the locals of lines 9-11
    x, y,           \* per frame: the arrays of lines 23-24
    result,         \* per call: the values returned to the caller
    illegal_calls   \* per call: the handler's invocations, by failed condition

vars == <<ctx, null, point, scalar, x_res, y_res, pc, ret, overflow, res, pt, s,
          x, y, result, illegal_calls>>

callerMem == <<ctx, null, point, scalar>>
outputs == <<x_res, y_res>>
locals == <<ret, overflow, res, pt, s, x, y>>

ArgNames == {"x_res", "y_res", "point", "scalar"}
Handlers == {"abort", "return"}

\* what an output buffer holds before the call: no canonical coordinate
\* encodes to it
Fill == [k \in 1..BufLen |-> ByteBase - 1]

\* a local that has been declared and not yet assigned: a group element, a
\* byte array
Indeterminate == [indeterminate |-> TRUE]
IndeterminateBytes == << >>

\* the storage of invocation i's locals: automatic, one frame per call
Frame_static(i) == 1
Frame(i) == i

(* ------------------------------- Init --------------------------------- *)
\* One call, by invocation 1, over every argument the caller can pass; s,
\* declared at line 11 without initializer, holds any value.
Init ==
    \E h \in Handlers, n \in SUBSET ArgNames, k \in Pubkeys, b \in Buffers,
       g \in 0..(GroupN - 1) :
        /\ ctx = [illegal_callback |-> h]
        /\ null = [i \in Procs |-> IF i = 1 THEN n ELSE {}]
        /\ point = [i \in Procs |-> k]
        /\ scalar = [i \in Procs |-> b]
        /\ x_res = [i \in Procs |-> Fill]
        /\ y_res = [i \in Procs |-> Fill]
        /\ pc = [i \in Procs |-> IF i = 1 THEN "L12" ELSE "idle"]
        /\ ret = [i \in Procs |-> 0]
        /\ overflow = [i \in Procs |-> 0]
        /\ res = [i \in Procs |-> Indeterminate]
        /\ pt = [i \in Procs |-> Indeterminate]
        /\ s = [i \in Procs |-> IF i = 1 THEN g ELSE 0]
        /\ x = [i \in Procs |-> IndeterminateBytes]
        /\ y = [i \in Procs |-> IndeterminateBytes]
        /\ result = [i \in Procs |-> << >>]
        /\ illegal_calls = [i \in Procs |-> << >>]

\* the scalars the concurrent calls are given: zero, the largest valid one,
\* the group order; the points: the two of one abscissa
ConcScalars == {Encode(0), Encode(GroupN - 1), Encode(GroupN)}
ConcPubkeys == {k \in Pubkeys : Decode(k.x) = CurveB + 1}

\* Every invocation makes a call, each with its own non-null buffers.  No
\* statement reads s before line 19 assigns it.
InitConc ==
    \E ks \in [Procs -> ConcPubkeys], bs \in [Procs -> ConcScalars] :
        /\ ctx = [illegal_callback |-> "abort"]
        /\ null = [i \in Procs |-> {}]
        /\ point = ks
        /\ scalar = bs
        /\ x_res = [i \in Procs |-> Fill]
        /\ y_res = [i \in Procs |-> Fill]
        /\ pc = [i \in Procs |-> "L12"]
        /\ ret = [i \in Procs |-> 0]
        /\ overflow = [i \in Procs |-> 0]
        /\ res = [i \in Procs |-> Indeterminate]
        /\ pt = [i \in Procs |-> Indeterminate]
        /\ s = [i \in Procs |-> GroupN - 1]
        /\ x = [i \in Procs |-> IndeterminateBytes]
        /\ y = [i \in Procs |-> IndeterminateBytes]
        /\ result = [i \in Procs |-> << >>]
        /\ illegal_calls = [i \in Procs |-> << >>]

(* ------------------------------ actions ------------------------------- *)
Goto(i, l) == pc' = [pc EXCEPT ![i] = l]

\* ARG_CHECK(cond): when cond fails, call the context's illegal-argument
\* handler with the text of cond; if the handler returns, return 0
ARG_CHECK(i, arg, next) ==
    IF arg \notin null[i]
    THEN /\ Goto(i, next)
         /\ UNCHANGED <<result, illegal_calls>>
    ELSE /\ illegal_calls' = [illegal_calls EXCEPT ![i] = Append(@, arg)]
         /\ IF ctx.illegal_callback = "abort"
            THEN /\ Goto(i, "aborted")
                 /\ UNCHANGED result
            ELSE /\ Goto(i, "returned")
                 /\ result' = [result EXCEPT ![i] = Append(@, 0)]

\* line 12
CheckXRes_skipped(i) ==
    /\ pc[i] = "L12"
    /\ Goto(i, "L13")
    /\ UNCHANGED <<callerMem, outputs, locals, result, illegal_calls>>

CheckXRes(i) ==
    /\ pc[i] = "L12"
    /\ ARG_CHECK(i, "x_res", "L13")
    /\ UNCHANGED <<callerMem, outputs, locals>>

\* line 13
CheckYRes(i) ==
    /\ pc[i] = "L13"
    /\ ARG_CHECK(i, "y_res", "L14")
    /\ UNCHANGED <<callerMem, outputs, locals>>

\* line 14
CheckPoint(i) ==
    /\ pc[i] = "L14"
    /\ ARG_CHECK(i, "point", "L15")
    /\ UNCHANGED <<callerMem, outputs, locals>>

\* line 15
CheckScalar(i) ==
    /\ pc[i] = "L15"
    /\ ARG_CHECK(i, "scalar", "L18")
    /\ UNCHANGED <<callerMem, outputs, locals>>

\* line 18
PubkeyLoad(i) ==
    /\ pc[i] = "L18"
    /\ pt' = [pt EXCEPT ![Frame(i)] = secp256k1_pubkey_load(point[i])]
    /\ Goto(i, "L19")
    /\ UNCHANGED <<callerMem, outputs, ret, overflow, res, s, x, y, result,
                   illegal_calls>>

\* line 19
ScalarSetB32(i) ==
    /\ pc[i] = "L19"
    /\ s' = [s EXCEPT ![Frame(i)] = secp256k1_scalar_set_b32(scalar[i]).s]
    /\ overflow' = [overflow EXCEPT
                       ![Frame(i)] = secp256k1_scalar_set_b32(scalar[i]).overflow]
    /\ Goto(i, "L20")
    /\ UNCHANGED <<callerMem, outputs, ret, res, pt, x, y, result, illegal_calls>>

\* line 20
Branch_overflowOnly(i) ==
    /\ pc[i] = "L20"
    /\ IF overflow[Frame(i)] # 0 THEN Goto(i, "L21") ELSE Goto(i, "L26")
    /\ UNCHANGED <<callerMem, outputs, locals, result, illegal_calls>>

Branch_rejectsAll(i) ==
    /\ pc[i] = "L20"
    /\ Goto(i, "L21")
    /\ UNCHANGED <<callerMem, outputs, locals, result, illegal_calls>>

Branch(i) ==
    /\ pc[i] = "L20"
    /\ IF overflow[Frame(i)] # 0 \/ secp256k1_scalar_is_zero(s[Frame(i)])
       THEN Goto(i, "L21")
       ELSE Goto(i, "L26")
    /\ UNCHANGED <<callerMem, outputs, locals, result, illegal_calls>>

\* line 21
Reject_fallsThrough(i) ==
    /\ pc[i] = "L21"
    /\ ret' = [ret EXCEPT ![Frame(i)] = 0]
    /\ Goto(i, "L26")
    /\ UNCHANGED <<callerMem, outputs, overflow, res, pt, s, x, y, result,
                   illegal_calls>>

Reject(i) ==
    /\ pc[i] = "L21"
    /\ ret' = [ret EXCEPT ![Frame(i)] = 0]
    /\ Goto(i, "L42")
    /\ UNCHANGED <<callerMem, outputs, overflow, res, pt, s, x, y, result,
                   illegal_calls>>

\* line 26
EcmultConst(i) ==
    /\ pc[i] = "L26"
    /\ res' = [res EXCEPT
                  ![Frame(i)] = secp256k1_ecmult_const(pt[Frame(i)], s[Frame(i)])]
    /\ Goto(i, "L27")
    /\ UNCHANGED <<callerMem, outputs, ret, overflow, pt, s, x, y, result,
                   illegal_calls>>

\* line 27: the coordinates come out of the field multiplications in any of
\* their representations
GeSetGej(i) ==
    /\ pc[i] = "L27"
    /\ \E kx \in 0..MaxMag, ky \in 0..MaxMag :
          LET a == secp256k1_ge_set_gej(res[Frame(i)])
          IN  pt' = [pt EXCEPT ![Frame(i)] =
                        [a EXCEPT !.x = @ + kx * FieldP, !.y = @ + ky * FieldP]]
    /\ Goto(i, "L32")
    /\ UNCHANGED <<callerMem, outputs, ret, overflow, res, s, x, y, result,
                   illegal_calls>>

\* line 32
NormalizeX_skipped(i) ==
    /\ pc[i] = "L32"
    /\ Goto(i, "L33")
    /\ UNCHANGED <<callerMem, outputs, locals, result, illegal_calls>>

NormalizeX(i) ==
    /\ pc[i] = "L32"
    /\ pt' = [pt EXCEPT ![Frame(i)].x = secp256k1_fe_normalize(@)]
    /\ Goto(i, "L33")
    /\ UNCHANGED <<callerMem, outputs, ret, overflow, res, s, x, y, result,
                   illegal_calls>>

\* line 33
NormalizeY(i) ==
    /\ pc[i] = "L33"
    /\ pt' = [pt EXCEPT ![Frame(i)].y = secp256k1_fe_normalize(@)]
    /\ Goto(i, "L34")
    /\ UNCHANGED <<callerMem, outputs, ret, overflow, res, s, x, y, result,
                   illegal_calls>>

\* line 34
GetB32X(i) ==
    /\ pc[i] = "L34"
    /\ x' = [x EXCEPT ![Frame(i)] = secp256k1_fe_get_b32(pt[Frame(i)].x)]
    /\ Goto(i, "L35")
    /\ UNCHANGED <<callerMem, outputs, ret, overflow, res, pt, s, y, result,
                   illegal_calls>>

\* line 35
GetB32Y_fromX(i) ==
    /\ pc[i] = "L35"
    /\ y' = [y EXCEPT ![Frame(i)] = secp256k1_fe_get_b32(pt[Frame(i)].x)]
    /\ Goto(i, "L37")
    /\ UNCHANGED <<callerMem, outputs, ret, overflow, res, pt, s, x, result,
                   illegal_calls>>

GetB32Y(i) ==
    /\ pc[i] = "L35"
    /\ y' = [y EXCEPT ![Frame(i)] = secp256k1_fe_get_b32(pt[Frame(i)].y)]
    /\ Goto(i, "L37")
    /\ UNCHANGED <<callerMem, outputs, ret, overflow, res, pt, s, x, result,
                   illegal_calls>>

\* line 37
MemcpyX(i) ==
    /\ pc[i] = "L37"
    /\ x_res' = [x_res EXCEPT ![i] = x[Frame(i)]]
    /\ Goto(i, "L38")
    /\ UNCHANGED <<callerMem, y_res, locals, result, illegal_calls>>

\* line 38
MemcpyY_skipped(i) ==
    /\ pc[i] = "L38"
    /\ Goto(i, "L39")
    /\ UNCHANGED <<callerMem, outputs, locals, result, illegal_calls>>

MemcpyY(i) ==
    /\ pc[i] = "L38"
    /\ y_res' = [y_res EXCEPT ![i] = y[Frame(i)]]
    /\ Goto(i, "L39")
    /\ UNCHANGED <<callerMem, x_res, locals, result, illegal_calls>>

\* line 39
SetRet(i) ==
    /\ pc[i] = "L39"
    /\ ret' = [ret EXCEPT ![Frame(i)] = 1]
    /\ Goto(i, "L42")
    /\ UNCHANGED <<callerMem, outputs, overflow, res, pt, s, x, y, result,
                   illegal_calls>>

\* line 42
ScalarClear_skipped(i) ==
    /\ pc[i] = "L42"
    /\ Goto(i, "L43")
    /\ UNCHANGED <<callerMem, outputs, locals, result, illegal_calls>>

ScalarClear_callersBuffer(i) ==
    /\ pc[i] = "L42"
    /\ s' = [s EXCEPT ![Frame(i)] = secp256k1_scalar_clear]
    /\ scalar' = [scalar EXCEPT ![i] = Encode(0)]
    /\ Goto(i, "L43")
    /\ UNCHANGED <<ctx, null, point, outputs, ret, overflow, res, pt, x, y,
                   result, illegal_calls>>

ScalarClear(i) ==
    /\ pc[i] = "L42"
    /\ s' = [s EXCEPT ![Frame(i)] = secp256k1_scalar_clear]
    /\ Goto(i, "L43")
    /\ UNCHANGED <<callerMem, outputs, ret, overflow, res, pt, x, y, result,
                   illegal_calls>>

\* line 43
Return(i) ==
    /\ pc[i] = "L43"
    /\ result' = [result EXCEPT ![i] = Append(@, ret[Frame(i)])]
    /\ Goto(i, "returned")
    /\ UNCHANGED <<callerMem, outputs, locals, illegal_calls>>

Step(i) ==
    \/ CheckXRes(i)
    \/ CheckYRes(i)
    \/ CheckPoint(i)
    \/ CheckScalar(i)
    \/ PubkeyLoad(i)
    \/ ScalarSetB32(i)
    \/ Branch(i)
    \/ Reject(i)
    \/ EcmultConst(i)
    \/ GeSetGej(i)
    \/ NormalizeX(i)
    \/ NormalizeY(i)
    \/ GetB32X(i)
    \/ GetB32Y(i)
    \/ MemcpyX(i)
    \/ MemcpyY(i)
    \/ SetRet(i)
    \/ ScalarClear(i)
    \/ Return(i)

Next == \E i \in Procs : Step(i)

\* one call, every input
Spec == Init /\ [][Next]_vars
\* the function runs to completion: a call that can take a step takes it
FairSpec == Init /\ [][Next]_vars /\ WF_vars(Next)
\* concurrent calls, every interleaving of their statements
SpecConc == InitConc /\ [][Next]_vars


(* ----------------------------- vocabulary ----------------------------- *)
Returned(i) == pc[i] = "returned"
Ended(i) == pc[i] \in {"returned", "aborted"}
ScalarValue(i) == Decode(scalar[i])
ValidScalar(i) == ScalarValue(i) \in 1..(GroupN - 1)
PointOf(i) == Ge(Decode(point[i].x), Decode(point[i].y))
\* s*P by the reference multiplication
Expected(i) == RefMul(ScalarValue(i), PointOf(i))

\* the first argument, in the order of the checks, that is NULL
ArgOrder == <<"x_res", "y_res", "point", "scalar">>
FirstNull(i) ==
    ArgOrder[CHOOSE k \in 1..Len(ArgOrder) :
                /\ ArgOrder[k] \in null[i]
                /\ \A j \in 1..(k - 1) : ArgOrder[j] \notin null[i]]

BeforeLoad == {"L12", "L13", "L14", "L15"}
Extracting == {"L27", "L32", "L33", "L34", "L35", "L37", "L38"}

(* ------------------------------- claims ------------------------------- *)

\* C1: a call with non-null arguments, a valid point P and a scalar s in
\* [1, n-1] returns 1 and leaves in x_res and y_res the affine coordinates of
\* s*P as the reference multiplication computes them.
C1_ValidScalarGivesReferencePoint ==
    \A i \in Procs :
        (Returned(i) /\ null[i] = {} /\ ValidScalar(i)) =>
            /\ result[i] = <<1>>
            /\ x_res[i] = Encode(Expected(i).x)
            /\ y_res[i] = Encode(Expected(i).y)

C1_Witness ==
    \E i \in Procs :
        /\ Returned(i) /\ null[i] = {}
        /\ ScalarValue(i) = GroupN - 1
        /\ result[i] = <<1>>
        /\ x_res[i] = Encode(Expected(i).x)

\* C2: a call with non-null arguments whose scalar encodes 0 or a value >= n
\* returns 0, and the caller sees the same thing in both cases: return value
\* 0, output buffers as they were, no handler invoked.
C2_ZeroAndOverflowFailAlike ==
    \A i \in Procs :
        (Returned(i) /\ null[i] = {} /\ ~ValidScalar(i)) =>
            /\ result[i] = <<0>>
            /\ x_res[i] = Fill
            /\ y_res[i] = Fill
            /\ illegal_calls[i] = << >>

C2_Witness ==
    \E i \in Procs :
        /\ Returned(i) /\ null[i] = {}
        /\ ScalarValue(i) = GroupN
        /\ result[i] = <<0>>

\* C3: at every return either the value is 1 and both output buffers hold the
\* serialized coordinates of the result, or the value is 0 and both buffers
\* are as the caller left them; a call that ends in the handler wrote neither.
C3_AllOrNothing ==
    \A i \in Procs :
        /\ Returned(i) =>
              \/ /\ result[i] = <<1>>
                 /\ x_res[i] # Fill /\ y_res[i] # Fill
                 /\ x_res[i] = secp256k1_fe_get_b32(pt[Frame(i)].x)
                 /\ y_res[i] = secp256k1_fe_get_b32(pt[Frame(i)].y)
              \/ /\ result[i] = <<0>>
                 /\ x_res[i] = Fill /\ y_res[i] = Fill
        /\ pc[i] = "aborted" => (x_res[i] = Fill /\ y_res[i] = Fill)

C3_Witness ==
    \E i \in Procs :
        Returned(i) /\ result[i] = <<1>> /\ x_res[i] # Fill /\ y_res[i] # Fill

C5_NullArgumentStopsAtFirstCheck ==
    \A i \in Procs :
        /\ null[i] # {} =>
              /\ pc[i] \in BeforeLoad \cup {"returned", "aborted"}
              /\ x_res[i] = Fill /\ y_res[i] = Fill
              /\ pc[i] \in BeforeLoad => illegal_calls[i] = << >>
              /\ Ended(i) => illegal_calls[i] = <<FirstNull(i)>>
        /\ null[i] = {} => illegal_calls[i] = << >>

C5_Witness ==
    \E i \in Procs :
        /\ Ended(i)
        /\ null[i] = {"y_res", "scalar"}
        /\ illegal_calls[i] = <<"y_res">>

Alone(i) ==
    IF ValidScalar(i)
    THEN [ret |-> 1, x |-> Encode(Expected(i).x), y |-> Encode(Expected(i).y)]
    ELSE [ret |-> 0, x |-> Fill, y |-> Fill]

\* C7: under every interleaving of concurrent calls on separate buffers, each
\* call returns the value and leaves the output bytes it does when run alone,
\* and a step of one call changes neither the context nor the arguments and
\* buffers of another call.
C7_ConcurrentCallsDoNotInterfere ==
    /\ [](\A i \in Procs :
            Returned(i) =>
                /\ result[i] = <<Alone(i).ret>>
                /\ x_res[i] = Alone(i).x
                /\ y_res[i] = Alone(i).y)
    /\ [][/\ ctx' = ctx
          /\ \A i \in Procs :
                pc'[i] = pc[i] =>
                    /\ x_res'[i] = x_res[i] /\ y_res'[i] = y_res[i]
                    /\ point'[i] = point[i] /\ scalar'[i] = scalar[i]
                    /\ result'[i] = result[i]]_vars

C7_Witness ==
    \E i, j \in Procs :
        /\ i # j /\ Returned(i) /\ Returned(j)
        /\ result[i] = <<1>> /\ result[j] = <<1>>
        /\ point[i] # point[j]
        /\ x_res[i] = Alone(i).x /\ y_res[j] = Alone(j).y

\* the stage of the per-call state machine that invocation i is in
Stage(i) ==
    CASE pc[i] = "idle" -> "Idle"
      [] pc[i] \in BeforeLoad -> "Start"
      [] pc[i] \in {"L18", "L19"} -> "Validated"
      [] pc[i] \in {"L20", "L26"} -> "ScalarChecked"
      [] pc[i] = "L21" -> "Rejected"
      [] pc[i] \in Extracting -> "Multiplied"
      [] pc[i] = "L39" -> "Extracted"
      [] pc[i] \in {"L42", "L43"} ->
            IF ret[Frame(i)] = 1 THEN "Extracted" ELSE "Rejected"
      [] Ended(i) /\ illegal_calls[i] # << >> -> "ContractViolation"
      [] Returned(i) /\ illegal_calls[i] = << >> ->
            IF result[i] = <<1>> THEN "Success" ELSE "Failure"

StageEdges ==
    { <<"Start", "Validated">>, <<"Validated", "ScalarChecked">>,
      <<"ScalarChecked", "Multiplied">>, <<"Multiplied", "Extracted">>,
      <<"Extracted", "Success">>, <<"ScalarChecked", "Rejected">>,
      <<"Rejected", "Failure">>, <<"Start", "ContractViolation">> }

\* the position of a statement in the function
Rank(l) ==
    CASE l = "idle" -> 0
      [] l = "L12" -> 12 [] l = "L13" -> 13 [] l = "L14" -> 14 [] l = "L15" -> 15
      [] l = "L18" -> 18 [] l = "L19" -> 19 [] l = "L20" -> 20 [] l = "L21" -> 21
      [] l = "L26" -> 26 [] l = "L27" -> 27 [] l = "L32" -> 32 [] l = "L33" -> 33
      [] l = "L34" -> 34 [] l = "L35" -> 35 [] l = "L37" -> 37 [] l = "L38" -> 38
      [] l = "L39" -> 39 [] l = "L42" -> 42 [] l = "L43" -> 43
      [] l \in {"returned", "aborted"} -> 44

C9_CanonicalAndDeterministic ==
    /\ \A i \in Procs :
          /\ pc[i] \in {"L35", "L37", "L38", "L39"} =>
                /\ pt[Frame(i)].x \in 0..(FieldP - 1)
                /\ x[Frame(i)] = Encode(pt[Frame(i)].x % FieldP)
          /\ pc[i] \in {"L37", "L38", "L39"} =>
                /\ pt[Frame(i)].y \in 0..(FieldP - 1)
                /\ y[Frame(i)] = Encode(pt[Frame(i)].y % FieldP)
    /\ \A i, j \in Procs :
          (/\ Returned(i) /\ Returned(j)
           /\ point[i] = point[j] /\ scalar[i] = scalar[j]) =>
              /\ result[i] = result[j]
              /\ x_res[i] = x_res[j]
              /\ y_res[i] = y_res[j]

C9_Witness ==
    \E i, j \in Procs :
        /\ i # j /\ Returned(i) /\ Returned(j)
        /\ point[i] = point[j] /\ scalar[i] = scalar[j]
        /\ result[i] = <<1>> /\ result[j] = <<1>>
        /\ x_res[i] = x_res[j] /\ x_res[i] # Fill

\* C10: no step of the call changes the context, the caller's point or the
\* caller's scalar buffer, on any path; the wipe of line 42 zeroes the local
\* s and leaves the caller's buffer as it was.
C10_InputsUnchanged ==
    [][/\ ctx' = ctx /\ null' = null /\ point' = point /\ scalar' = scalar
       /\ \A i \in Procs :
             (pc[i] = "L42" /\ pc'[i] = "L43") =>
                 s'[Frame(i)] = 0 /\ scalar'[i] = scalar[i]]_vars

C10_Witness ==
    \E i \in Procs :
        /\ Returned(i) /\ null[i] = {}
        /\ ValidScalar(i)
        /\ s[Frame(i)] = 0
        /\ scalar[i] # Encode(0)

=============================================================================
